---- MODULE Spec2Model ----
(***************************************************************************)
(* Model of module/train.py: the Trainer class (construction, the epoch    *)
(* loop of train(), the per-batch steps of train_epoch() and valid_epoch() *)
(* and the static helper measure_time()).                                  *)
(*                                                                         *)
(* Units.  A loss is an integer number of thousandths (round(x, 3) keeps   *)
(* three decimals), so 1500 is the loss 1.5 and a perplexity of 1000 is    *)
(* 1.0.  A learning rate is an integer number of millionths.  Times are    *)
(* whole seconds.                                                          *)
(***************************************************************************)
EXTENDS Integers, Sequences, FiniteSets, TLC

VARIABLES
    config,         \* the config object and the two dataloaders' lengths
    pc,             \* position of the single control thread
    attrs,          \* names of the attributes set on self so far
    model,          \* [mode, params, grads] of self.model
    steps,          \* step() calls made on optimizer, bert_optimizer, scaler
    lr,             \* self.optimizer.param_groups[0]['lr']
    scheduler,      \* ReduceLROnPlateau state: [best, num_bad_epochs]
    epoch,          \* loop variable of train()
    best_loss,      \* local of train()
    records,        \* local of train(): list of record dicts
    start_time,     \* local of train()
    now,            \* time.time()
    idx,            \* batches taken from the dataloader in the current pass
    epoch_loss,     \* accumulator local to train_epoch / valid_epoch
    loss,           \* the last forward loss of the current pass
    ops,            \* operations performed on the current batch, in order
    consumed,       \* batches taken in the current pass, in order
    pass_steps,     \* optimizer.step() calls made in the current pass
    train_result,   \* value returned by train_epoch() this epoch
    valid_result,   \* value returned by valid_epoch() this epoch
    ckpt,           \* content of the file at ckpt_path
    ckpt_log,       \* history: one entry per completed torch.save
    record_file,    \* content of the file at record_path
    record_writes,  \* history: completed json.dump calls
    passes,         \* history: passes completed, in order
    error,          \* the uncaught exception, if any
    result          \* value returned by a direct call of measure_time()

vars == <<config, pc, attrs, model, steps, lr, scheduler, epoch, best_loss,
          records, start_time, now, idx, epoch_loss, loss, ops, consumed,
          pass_steps, train_result, valid_result, ckpt, ckpt_log,
          record_file, record_writes, passes, error, result>>

----------------------------------------------------------------------------
(* Bounds of the model *)

MaxEpochs == 3
MaxBatches == 2
MaxStart == 1
MaxEnd == 3600

(* Input values *)

Losses == {500, 2000}
Elapsed == {59, 125}
Patiences == {1, 2}
Accumulations == {1, 2}
LearningRates == {50}
ModelNameOwners == {"nobody", "config", "model", "trainer"}

(* float('inf'): greater than every loss of the model *)
Inf == 1000000000

(* torch defaults of ReduceLROnPlateau(optimizer, 'min') *)
SchedulerPatience == 10

None == <<>>

----------------------------------------------------------------------------
(* Pure helpers *)

Min(a, b) == IF a <= b THEN a ELSE b

\* int(x / d) for d > 0: truncation toward zero
IntDiv(x, d) == IF x >= 0 THEN x \div d ELSE -((-x) \div d)

\* round(n / d, 3) on thousandths, n >= 0, d > 0: nearest, ties to even
RoundDiv(n, d) ==
    LET q == n \div d
        r == n % d
    IN  IF 2 * r < d THEN q
        ELSE IF 2 * r > d THEN q + 1
        ELSE IF q % 2 = 0 THEN q ELSE q + 1

\* math.exp by its power series in fixed point (hundred-thousandths);
\* x is in thousandths, the series stops when the term vanishes
RECURSIVE ExpSeries(_, _, _, _)
ExpSeries(x, k, term, acc) ==
    IF term = 0 THEN acc
    ELSE ExpSeries(x, k + 1, (term * x) \div (1000 * k), acc + term)

\* round(math.exp(x), 3), in thousandths
ExpRound(x) == (ExpSeries(x, 1, 100000, 0) + 50) \div 100

Digit(d) ==
    CASE d = 0 -> "0" [] d = 1 -> "1" [] d = 2 -> "2" [] d = 3 -> "3"
      [] d = 4 -> "4" [] d = 5 -> "5" [] d = 6 -> "6" [] d = 7 -> "7"
      [] d = 8 -> "8" [] d = 9 -> "9"

\* str(n) of an f-string field
RECURSIVE Str(_)
Str(n) ==
    IF n < 0 THEN "-" \o Str(-n)
    ELSE IF n < 10 THEN Digit(n)
    ELSE Str(n \div 10) \o Digit(n % 10)

\* {k: v for k, v in zip(keys, vals)}: a dict in insertion order
Zip(keys, vals) ==
    [i \in 1..Min(Len(keys), Len(vals)) |-> <<keys[i], vals[i]>>]

Keys(d) == [i \in 1..Len(d) |-> d[i][1]]

Get(d, k) == d[CHOOSE i \in 1..Len(d) : d[i][1] = k][2]

----------------------------------------------------------------------------
(* Trainer.__init__ *)

\* attributes assigned by lines 11-31, before record_path is built
AttrsBeforeRecordPath ==
    {"model", "clip", "device", "strategy", "n_epochs", "vocab_size",
     "scaler", "iters_to_accumulate", "early_stop", "patience",
     "train_dataloader", "valid_dataloader", "bert_optimizer", "optimizer",
     "scheduler", "ckpt_path"}

AttrsAll == AttrsBeforeRecordPath \cup {"record_path", "record_keys"}

record_keys ==
    <<"epoch", "train_loss", "train_ppl", "valid_loss", "valid_ppl",
      "learning_rate", "train_time">>

\* variant: the name is also looked up on the config and on the model
HasModelNameAnywhere(owner) == owner \in {"trainer", "config", "model"}

\* self.model_name: attribute lookup on the Trainer instance only
HasModelName(owner) == owner = "trainer"

\* variant: the exception is caught and the loop goes on with the next epoch
RaiseSwallowed(at, kind) ==
    /\ pc' = "loop"
    /\ error' = <<[at |-> at, epoch |-> epoch, kind |-> kind]>>

\* an exception nobody catches: the control thread stops where it is
Raise(at, kind) ==
    /\ pc' = "aborted"
    /\ error' = <<[at |-> at, epoch |-> epoch, kind |-> kind]>>

Configs ==
    [n_epochs : 0..MaxEpochs,
     early_stop : BOOLEAN,
     patience : Patiences,
     iters_to_accumulate : Accumulations,
     learning_rate : LearningRates,
     model_name_on : ModelNameOwners,
     n_train : 0..MaxBatches,
     n_valid : 0..MaxBatches]

NoCkpt == [state |-> "absent", epoch |-> 0, model_state_dict |-> 0,
           optimizer_state_dict |-> 0]

NoRecordFile == [state |-> "absent", doc |-> <<>>]

\* everything but config, pc and the measure_time operands, before Trainer()
Blank ==
    /\ attrs = {}
    /\ model = [mode |-> "train", params |-> 0, grads |-> "none"]
    /\ steps = [optimizer |-> 0, bert_optimizer |-> 0, scaler |-> 0]
    /\ lr = 0
    /\ scheduler = [best |-> Inf, num_bad_epochs |-> 0]
    /\ epoch = 0
    /\ best_loss = Inf
    /\ records = <<>>
    /\ idx = 0
    /\ epoch_loss = 0
    /\ loss = 0
    /\ ops = <<>>
    /\ consumed = <<>>
    /\ pass_steps = 0
    /\ train_result = None
    /\ valid_result = None
    /\ ckpt = NoCkpt
    /\ ckpt_log = <<>>
    /\ record_file = NoRecordFile
    /\ record_writes = 0
    /\ passes = <<>>
    /\ error = None
    /\ result = None

Init ==
    /\ config \in Configs
    /\ pc = "new"
    /\ start_time = 0
    /\ now = 0
    /\ Blank

Trainer_init ==
    /\ pc = "new"
    /\ lr' = config.learning_rate
    /\ scheduler' = [best |-> Inf, num_bad_epochs |-> 0]
    /\ IF HasModelName(config.model_name_on)
         THEN /\ attrs' = AttrsAll
              /\ pc' = "ready"
              /\ UNCHANGED error
         ELSE /\ attrs' = AttrsBeforeRecordPath
              /\ Raise("init", "AttributeError")
    /\ UNCHANGED <<config, model, steps, epoch, best_loss, records,
                   start_time, now, idx, epoch_loss, loss, ops, consumed,
                   pass_steps, train_result, valid_result, ckpt, ckpt_log,
                   record_file, record_writes, passes, result>>

----------------------------------------------------------------------------
(* Trainer.train *)

\* variant: early_stop and patience end the loop once the validation loss
\* has not improved for patience epochs
LoopContinuesEarlyStop(e, cfg) ==
    /\ e < cfg.n_epochs
    /\ ~(cfg.early_stop /\ scheduler.num_bad_epochs >= cfg.patience)

\* for epoch in range(1, self.n_epochs + 1): another iteration follows epoch e
LoopContinues(e, cfg) == e < cfg.n_epochs

\* variant: a tie with the best loss counts as an improvement
ImprovesOrTies(best, val) == best >= val

\* variant: the comparison is the wrong way round
ImprovesFlipped(best, val) == best < val

\* if best_loss > val_loss
Improves(best, val) == best > val

\* variant: the learning rate is left out of the list
RecordValsNoRate(e, train, valid, rate, time) ==
    <<e, train[1], train[2], valid[1], valid[2], time>>

\* the record_vals list of lines 61-63
RecordVals(e, train, valid, rate, time) ==
    <<e, train[1], train[2], valid[1], valid[2], rate, time>>

\* variant: the minutes are rounded to the nearest instead of truncated
measure_time_rounded(start, end) ==
    LET elapsed_time == end - start
        elapsed_min == IntDiv(2 * elapsed_time + 60, 120)
        elapsed_sec == elapsed_time - (elapsed_min * 60)
    IN  Str(elapsed_min) \o "m " \o Str(elapsed_sec) \o "s"

\* Trainer.measure_time
measure_time(start, end) ==
    LET elapsed_time == end - start
        elapsed_min == IntDiv(elapsed_time, 60)
        elapsed_sec == elapsed_time - (elapsed_min * 60)
    IN  Str(elapsed_min) \o "m " \o Str(elapsed_sec) \o "s"

\* line 57
train_begin ==
    /\ pc = "ready"
    /\ best_loss' = Inf
    /\ records' = <<>>
    /\ pc' = "loop"
    /\ UNCHANGED <<config, attrs, model, steps, lr, scheduler, epoch,
                   start_time, now, idx, epoch_loss, loss, ops, consumed,
                   pass_steps, train_result, valid_result, ckpt, ckpt_log,
                   record_file, record_writes, passes, error, result>>

\* lines 58-59, and the head of train_epoch (lines 87-89)
epoch_begin ==
    /\ pc = "loop"
    /\ LoopContinues(epoch, config)
    /\ epoch' = epoch + 1
    /\ start_time' = now
    /\ model' = [model EXCEPT !.mode = "train"]
    /\ epoch_loss' = 0
    /\ idx' = 0
    /\ consumed' = <<>>
    /\ ops' = <<>>
    /\ pass_steps' = 0
    /\ train_result' = None
    /\ valid_result' = None
    /\ pc' = "train_forward"
    /\ UNCHANGED <<config, attrs, steps, lr, scheduler, best_loss, records,
                   now, loss, ckpt, ckpt_log, record_file, record_writes,
                   passes, error, result>>

\* the loop is over: on to line 81
loop_exit ==
    /\ pc = "loop"
    /\ ~LoopContinues(epoch, config)
    /\ pc' = "dump"
    /\ UNCHANGED <<config, attrs, model, steps, lr, scheduler, epoch,
                   best_loss, records, start_time, now, idx, epoch_loss,
                   loss, ops, consumed, pass_steps, train_result,
                   valid_result, ckpt, ckpt_log, record_file, record_writes,
                   passes, error, result>>

----------------------------------------------------------------------------
(* Trainer.train_epoch *)

\* lines 91-96: the next batch is taken and the model is called on it
train_forward ==
    /\ pc = "train_forward"
    /\ idx < config.n_train
    /\ idx' = idx + 1
    /\ consumed' = Append(consumed, idx + 1)
    /\ \E l \in Losses : loss' = l
    /\ ops' = <<"forward">>
    /\ pc' = "train_backward"
    /\ UNCHANGED <<config, attrs, model, steps, lr, scheduler, epoch,
                   best_loss, records, start_time, now, epoch_loss,
                   pass_steps, train_result, valid_result, ckpt, ckpt_log,
                   record_file, record_writes, passes, error, result>>

\* line 97: loss.backward()
train_backward ==
    /\ pc = "train_backward"
    /\ model' = [model EXCEPT !.grads = "raw"]
    /\ ops' = Append(ops, "backward")
    /\ pc' = "train_clip"
    /\ UNCHANGED <<config, attrs, steps, lr, scheduler, epoch, best_loss,
                   records, start_time, now, idx, epoch_loss, loss, consumed,
                   pass_steps, train_result, valid_result, ckpt, ckpt_log,
                   record_file, record_writes, passes, error, result>>

\* line 98: nn.utils.clip_grad_norm_
train_clip ==
    /\ pc = "train_clip"
    /\ model' = [model EXCEPT !.grads = "clipped"]
    /\ ops' = Append(ops, "clip")
    /\ pc' = "train_step"
    /\ UNCHANGED <<config, attrs, steps, lr, scheduler, epoch, best_loss,
                   records, start_time, now, idx, epoch_loss, loss, consumed,
                   pass_steps, train_result, valid_result, ckpt, ckpt_log,
                   record_file, record_writes, passes, error, result>>

\* variant: the optimizer steps once every iters_to_accumulate batches
train_step_accumulated ==
    /\ pc = "train_step"
    /\ IF idx % config.iters_to_accumulate = 0
         THEN /\ steps' = [steps EXCEPT !.optimizer = @ + 1]
              /\ model' = [model EXCEPT !.params = @ + 1]
              /\ pass_steps' = pass_steps + 1
         ELSE UNCHANGED <<steps, model, pass_steps>>
    /\ ops' = Append(ops, "step")
    /\ pc' = "train_zero"
    /\ UNCHANGED <<config, attrs, lr, scheduler, epoch, best_loss, records,
                   start_time, now, idx, epoch_loss, loss, consumed,
                   train_result, valid_result, ckpt, ckpt_log, record_file,
                   record_writes, passes, error, result>>

\* line 100: self.optimizer.step()
train_step ==
    /\ pc = "train_step"
    /\ steps' = [steps EXCEPT !.optimizer = @ + 1]
    /\ model' = [model EXCEPT !.params = @ + 1]
    /\ pass_steps' = pass_steps + 1
    /\ ops' = Append(ops, "step")
    /\ pc' = "train_zero"
    /\ UNCHANGED <<config, attrs, lr, scheduler, epoch, best_loss, records,
                   start_time, now, idx, epoch_loss, loss, consumed,
                   train_result, valid_result, ckpt, ckpt_log, record_file,
                   record_writes, passes, error, result>>

\* line 101: self.optimizer.zero_grad()
train_zero ==
    /\ pc = "train_zero"
    /\ model' = [model EXCEPT !.grads = "zero"]
    /\ ops' = Append(ops, "zero_grad")
    /\ pc' = "train_accum"
    /\ UNCHANGED <<config, attrs, steps, lr, scheduler, epoch, best_loss,
                   records, start_time, now, idx, epoch_loss, loss, consumed,
                   pass_steps, train_result, valid_result, ckpt, ckpt_log,
                   record_file, record_writes, passes, error, result>>

\* line 103: epoch_loss += loss.item()
train_accum ==
    /\ pc = "train_accum"
    /\ epoch_loss' = epoch_loss + loss
    /\ ops' = Append(ops, "accumulate")
    /\ pc' = "train_forward"
    /\ UNCHANGED <<config, attrs, model, steps, lr, scheduler, epoch,
                   best_loss, records, start_time, now, idx, loss, consumed,
                   pass_steps, train_result, valid_result, ckpt, ckpt_log,
                   record_file, record_writes, passes, error, result>>

\* lines 105-107, the dataloader being exhausted
train_return ==
    /\ pc = "train_forward"
    /\ idx = config.n_train
    /\ IF config.n_train = 0
         THEN /\ Raise("train_return", "ZeroDivisionError")
              /\ UNCHANGED <<train_result, passes, loss>>
         ELSE /\ LET mean == RoundDiv(epoch_loss, config.n_train)
                 IN  train_result' = <<mean, ExpRound(mean)>>
              /\ passes' = Append(passes, "train")
              /\ loss' = 0
              /\ pc' = "valid_begin"
              /\ UNCHANGED error
    /\ UNCHANGED <<config, attrs, model, steps, lr, scheduler, epoch,
                   best_loss, records, start_time, now, idx, epoch_loss, ops,
                   consumed, pass_steps, valid_result, ckpt, ckpt_log,
                   record_file, record_writes, result>>

----------------------------------------------------------------------------
(* Trainer.valid_epoch *)

\* lines 112-114
valid_begin ==
    /\ pc = "valid_begin"
    /\ model' = [model EXCEPT !.mode = "eval"]
    /\ epoch_loss' = 0
    /\ idx' = 0
    /\ consumed' = <<>>
    /\ ops' = <<>>
    /\ pass_steps' = 0
    /\ pc' = "valid_forward"
    /\ UNCHANGED <<config, attrs, steps, lr, scheduler, epoch, best_loss,
                   records, start_time, now, loss, train_result,
                   valid_result, ckpt, ckpt_log, record_file, record_writes,
                   passes, error, result>>

\* variant: the batch loop adds the loss to epoch_loss, as train_epoch does
valid_forward_accumulates ==
    /\ pc = "valid_forward"
    /\ idx < config.n_valid
    /\ idx' = idx + 1
    /\ consumed' = Append(consumed, idx + 1)
    /\ \E l \in Losses : loss' = l /\ epoch_loss' = epoch_loss + l
    /\ ops' = <<"forward">>
    /\ pc' = "valid_forward"
    /\ UNCHANGED <<config, attrs, model, steps, lr, scheduler, epoch,
                   best_loss, records, start_time, now, pass_steps,
                   train_result, valid_result, ckpt, ckpt_log, record_file,
                   record_writes, passes, error, result>>

\* lines 117-122: the whole body of the batch loop; epoch_loss is not touched
valid_forward ==
    /\ pc = "valid_forward"
    /\ idx < config.n_valid
    /\ idx' = idx + 1
    /\ consumed' = Append(consumed, idx + 1)
    /\ \E l \in Losses : loss' = l
    /\ ops' = <<"forward">>
    /\ pc' = "valid_forward"
    /\ UNCHANGED <<config, attrs, model, steps, lr, scheduler, epoch,
                   best_loss, records, start_time, now, epoch_loss,
                   pass_steps, train_result, valid_result, ckpt, ckpt_log,
                   record_file, record_writes, passes, error, result>>

\* lines 125-127, the dataloader being exhausted
valid_return ==
    /\ pc = "valid_forward"
    /\ idx = config.n_valid
    /\ IF config.n_valid = 0
         THEN /\ Raise("valid_return", "ZeroDivisionError")
              /\ UNCHANGED <<valid_result, passes, loss>>
         ELSE /\ LET mean == RoundDiv(epoch_loss, config.n_valid)
                 IN  valid_result' = <<mean, ExpRound(mean)>>
              /\ passes' = Append(passes, "valid")
              /\ loss' = 0
              /\ pc' = "record"
              /\ UNCHANGED error
    /\ UNCHANGED <<config, attrs, model, steps, lr, scheduler, epoch,
                   best_loss, records, start_time, now, idx, epoch_loss, ops,
                   consumed, pass_steps, train_result, ckpt, ckpt_log,
                   record_file, record_writes, result>>

----------------------------------------------------------------------------
(* Trainer.train, the rest of the loop body *)

\* lines 61-67: the record of the epoch is built, appended and printed
record ==
    /\ pc = "record"
    /\ \E d \in Elapsed :
         /\ now' = now + d
         /\ LET record_vals == RecordVals(epoch, train_result, valid_result,
                                          lr, measure_time(start_time, now'))
                record_dict == Zip(record_keys, record_vals)
            IN  records' = Append(records, record_dict)
    /\ pc' = "scheduler"
    /\ UNCHANGED <<config, attrs, model, steps, lr, scheduler, epoch,
                   best_loss, start_time, idx, epoch_loss, loss, ops,
                   consumed, pass_steps, train_result, valid_result, ckpt,
                   ckpt_log, record_file, record_writes, passes, error,
                   result>>

val_loss == Get(records[Len(records)], "valid_loss")

\* lines 69-70: ReduceLROnPlateau.step with mode 'min', factor 0.1,
\* relative threshold 1e-4, no cooldown
scheduler_step ==
    /\ pc = "scheduler"
    /\ LET better == \/ scheduler.best = Inf
                     \/ val_loss * 10000 < scheduler.best * 9999
           bad == IF better THEN 0 ELSE scheduler.num_bad_epochs + 1
       IN  /\ scheduler' =
                 [best |-> IF better THEN val_loss ELSE scheduler.best,
                  num_bad_epochs |-> IF bad > SchedulerPatience THEN 0 ELSE bad]
           /\ lr' = IF bad > SchedulerPatience THEN lr \div 10 ELSE lr
    /\ pc' = "compare"
    /\ UNCHANGED <<config, attrs, model, steps, epoch, best_loss, records,
                   start_time, now, idx, epoch_loss, loss, ops, consumed,
                   pass_steps, train_result, valid_result, ckpt, ckpt_log,
                   record_file, record_writes, passes, error, result>>

\* variant: best_loss is not updated when the loss improves
compare_keeps_best ==
    /\ pc = "compare"
    /\ best_loss' = best_loss
    /\ pc' = IF Improves(best_loss, val_loss) THEN "save" ELSE "loop"
    /\ UNCHANGED <<config, attrs, model, steps, lr, scheduler, epoch,
                   records, start_time, now, idx, epoch_loss, loss, ops,
                   consumed, pass_steps, train_result, valid_result, ckpt,
                   ckpt_log, record_file, record_writes, passes, error,
                   result>>

\* lines 73-74
compare ==
    /\ pc = "compare"
    /\ IF Improves(best_loss, val_loss)
         THEN best_loss' = val_loss /\ pc' = "save"
         ELSE best_loss' = best_loss /\ pc' = "loop"
    /\ UNCHANGED <<config, attrs, model, steps, lr, scheduler, epoch,
                   records, start_time, now, idx, epoch_loss, loss, ops,
                   consumed, pass_steps, train_result, valid_result, ckpt,
                   ckpt_log, record_file, record_writes, passes, error,
                   result>>

\* lines 75-78: torch.save replaces the file at ckpt_path
torch_save ==
    /\ pc = "save"
    /\ ckpt' = [state |-> "written", epoch |-> epoch,
                model_state_dict |-> model.params,
                optimizer_state_dict |-> steps.optimizer]
    /\ ckpt_log' = Append(ckpt_log, [epoch |-> epoch, loss |-> val_loss,
                                     file |-> ckpt'])
    /\ pc' = "loop"
    /\ UNCHANGED <<config, attrs, model, steps, lr, scheduler, epoch,
                   best_loss, records, start_time, now, idx, epoch_loss,
                   loss, ops, consumed, pass_steps, train_result,
                   valid_result, record_file, record_writes, passes, error,
                   result>>

\* json.dump(records, fp): an array with one object per dict, each dict item
\* a member of its object, in dict order
JsonDump(recs) ==
    [i \in 1..Len(recs) |->
        [j \in 1..Len(recs[i]) |->
            [name |-> Keys(recs[i])[j], value |-> recs[i][j][2]]]]

\* lines 81-82
json_dump ==
    /\ pc = "dump"
    /\ record_file' = [state |-> "written", doc |-> JsonDump(records)]
    /\ record_writes' = record_writes + 1
    /\ pc' = "done"
    /\ UNCHANGED <<config, attrs, model, steps, lr, scheduler, epoch,
                   best_loss, records, start_time, now, idx, epoch_loss,
                   loss, ops, consumed, pass_steps, train_result,
                   valid_result, ckpt, ckpt_log, passes, error, result>>

----------------------------------------------------------------------------
(* Failures of the framework and of the filesystem *)

\* the statements that call into the model, the optimizer or the filesystem
Failable ==
    {"train_backward", "train_clip", "train_step", "train_zero", "save",
     "dump"}

CanFail ==
    \/ pc \in Failable
    \/ pc = "train_forward" /\ idx < config.n_train
    \/ pc = "valid_forward" /\ idx < config.n_valid

\* the statement at pc raises; a write that fails may have truncated its file
step_fails ==
    /\ CanFail
    /\ Raise(pc, "RuntimeError")
    /\ IF pc = "save"
         THEN \E c \in {ckpt, [ckpt EXCEPT !.state = "corrupt"]} : ckpt' = c
         ELSE ckpt' = ckpt
    /\ IF pc = "dump"
         THEN \E f \in {record_file, [state |-> "corrupt", doc |-> <<>>]} :
                 record_file' = f
         ELSE record_file' = record_file
    /\ UNCHANGED <<config, attrs, model, steps, lr, scheduler, epoch,
                   best_loss, records, start_time, now, idx, epoch_loss,
                   loss, ops, consumed, pass_steps, train_result,
                   valid_result, ckpt_log, record_writes, passes, result>>

----------------------------------------------------------------------------

Next ==
    \/ Trainer_init
    \/ train_begin
    \/ epoch_begin
    \/ train_forward
    \/ train_backward
    \/ train_clip
    \/ train_step
    \/ train_zero
    \/ train_accum
    \/ train_return
    \/ valid_begin
    \/ valid_forward
    \/ valid_return
    \/ record
    \/ scheduler_step
    \/ compare
    \/ torch_save
    \/ loop_exit
    \/ json_dump
    \/ step_fails

Spec == Init /\ [][Next]_vars

----------------------------------------------------------------------------
(* A direct call of the static method measure_time(start_time, end_time) *)

InitTime ==
    /\ config = [n_epochs |-> 0, early_stop |-> FALSE, patience |-> 1,
                 iters_to_accumulate |-> 1, learning_rate |-> 50,
                 model_name_on |-> "trainer", n_train |-> 0, n_valid |-> 0]
    /\ pc = "measure_time"
    /\ start_time \in 0..MaxStart
    /\ now \in 0..MaxEnd
    /\ Blank

measure_time_call ==
    /\ pc = "measure_time"
    /\ result' = <<measure_time(start_time, now)>>
    /\ pc' = "returned"
    /\ UNCHANGED <<config, attrs, model, steps, lr, scheduler, epoch,
                   best_loss, records, start_time, now, idx, epoch_loss,
                   loss, ops, consumed, pass_steps, train_result,
                   valid_result, ckpt, ckpt_log, record_file, record_writes,
                   passes, error>>

NextTime == measure_time_call

SpecTime == InitTime /\ [][NextTime]_vars

----------------------------------------------------------------------------
(* Properties *)

ValLoss(e) == Get(records[e], "valid_loss")

\* least validation loss of epochs 1..n, +infinity for n = 0
MinUpTo(n) ==
    IF n = 0 THEN Inf
    ELSE LET seen == {ValLoss(e) : e \in 1..n}
         IN  CHOOSE v \in seen : \A w \in seen : v <= w

Between == {"loop", "dump", "done"}

Running == pc \notin {"new", "ready", "aborted", "measure_time", "returned"}

\* epochs of which the comparison and the save are over
Settled == IF pc \in Between THEN epoch ELSE epoch - 1

SavedAt(e) == \E i \in 1..Len(ckpt_log) : ckpt_log[i].epoch = e

\* C1: between epochs, a checkpoint was written at epoch e exactly when that
\* epoch's validation loss was strictly below the best of the epochs before
\* it; best_loss is the least validation loss so far; the losses of the
\* checkpoints written decrease strictly; and the checkpoint on disk carries
\* the earliest epoch that reached the least loss.
C1_BestCheckpoint ==
    pc \in Between =>
        LET n == Len(records)
        IN  /\ n = epoch
            /\ \A e \in 1..n : SavedAt(e) <=> ValLoss(e) < MinUpTo(e - 1)
            /\ best_loss = MinUpTo(n)
            /\ \A i \in 1..(Len(ckpt_log) - 1) :
                   /\ ckpt_log[i].loss > ckpt_log[i + 1].loss
                   /\ ckpt_log[i].epoch < ckpt_log[i + 1].epoch
            /\ n >= 1 =>
                   /\ ckpt.state = "written"
                   /\ ValLoss(ckpt.epoch) = MinUpTo(n)
                   /\ \A e \in 1..(ckpt.epoch - 1) : ValLoss(e) > MinUpTo(n)

\* a later epoch tied with the best loss and the checkpoint was not rewritten
C1_Witness ==
    /\ pc = "done"
    /\ epoch >= 2
    /\ ValLoss(2) = best_loss
    /\ Len(ckpt_log) = 1
    /\ ckpt.epoch = 1

StrictlyDecreasing == \A e \in 1..(Len(records) - 1) : ValLoss(e) > ValLoss(e + 1)

NeverImproves == \A e \in 2..Len(records) : ValLoss(e) >= ValLoss(1)

\* C3: once epoch 1 is over, as long as no later epoch's validation loss is
\* below that of epoch 1, the checkpoint was written exactly once, at epoch
\* 1, and the file is still what epoch 1 wrote.
C3_NoImprovementWritesOnce ==
    (Running /\ Settled >= 1 /\ NeverImproves) =>
        /\ Len(ckpt_log) = 1
        /\ ckpt_log[1].epoch = 1
        /\ ckpt_log[1].loss = ValLoss(1)
        /\ ckpt = ckpt_log[1].file
        /\ ckpt.state = "written"
        /\ ckpt.epoch = 1

C3_Witness ==
    /\ pc = "done"
    /\ config.n_epochs = MaxEpochs
    /\ MaxEpochs >= 3
    /\ NeverImproves
    /\ model.params > ckpt.model_state_dict
    /\ ckpt.epoch = 1

\* C4: valid_epoch() leaves its accumulator at zero during the batch loop and
\* returns loss 0.0 and perplexity 1.0; every record holds these values.
C4_ValidationAlwaysZero ==
    /\ pc = "valid_forward" => epoch_loss = 0
    /\ valid_result # None => valid_result = <<0, 1000>>
    /\ \A i \in 1..Len(records) :
           /\ Get(records[i], "valid_loss") = 0
           /\ Get(records[i], "valid_ppl") = 1000

C4_Witness ==
    /\ pc = "record"
    /\ config.n_valid = 2
    /\ valid_result = <<0, 1000>>
    /\ train_result[1] > 0

KeySet == {record_keys[i] : i \in 1..Len(record_keys)}

\* C5: the record file is written by no state before the end of the run, and
\* when train() is done it was written once and holds one object per epoch,
\* in epoch order, each with exactly the seven keys.
C5_RecordFile ==
    /\ pc \notin {"done", "aborted"} =>
           record_writes = 0 /\ record_file = NoRecordFile
    /\ pc = "done" =>
           /\ record_writes = 1
           /\ record_file.state = "written"
           /\ Len(record_file.doc) = config.n_epochs
           /\ \A i \in 1..Len(record_file.doc) :
                  LET obj == record_file.doc[i]
                  IN  /\ Len(obj) = 7
                      /\ {obj[j].name : j \in 1..Len(obj)} = KeySet
                      /\ Cardinality(KeySet) = 7
                      /\ obj[1] = [name |-> "epoch", value |-> i]

C5_Witness ==
    /\ pc = "done"
    /\ config.n_epochs = MaxEpochs
    /\ Len(record_file.doc) = MaxEpochs
    /\ record_file.doc[MaxEpochs][1].value = MaxEpochs
    /\ record_file.doc[MaxEpochs][7].name = "train_time"

\* the passes of n whole epochs: train, valid, train, valid, ...
Alternating(n) == [i \in 1..(2 * n) |-> IF i % 2 = 1 THEN "train" ELSE "valid"]

\* the steps of one epoch, and a bound on the steps left before train() ends
EpochCost == 6 * config.n_train + config.n_valid + 8

InEpoch ==
    CASE pc = "train_forward" ->
             6 * (config.n_train - idx) + config.n_valid + 7
      [] pc = "train_backward" ->
             6 * (config.n_train - idx) + config.n_valid + 12
      [] pc = "train_clip" -> 6 * (config.n_train - idx) + config.n_valid + 11
      [] pc = "train_step" -> 6 * (config.n_train - idx) + config.n_valid + 10
      [] pc = "train_zero" -> 6 * (config.n_train - idx) + config.n_valid + 9
      [] pc = "train_accum" -> 6 * (config.n_train - idx) + config.n_valid + 8
      [] pc = "valid_begin" -> config.n_valid + 6
      [] pc = "valid_forward" -> (config.n_valid - idx) + 5
      [] pc = "record" -> 4
      [] pc = "scheduler" -> 3
      [] pc = "compare" -> 2
      [] pc = "save" -> 1
      [] OTHER -> 0

StepsLeft ==
    CASE pc \in {"done", "aborted"} -> 0
      [] pc = "dump" -> 1
      [] pc = "ready" -> config.n_epochs * EpochCost + 3
      [] pc = "new" -> config.n_epochs * EpochCost + 4
      [] OTHER -> (config.n_epochs - epoch) * EpochCost + InEpoch + 2

\* a step of the program other than a failure
Proceeds ==
    \/ train_begin \/ epoch_begin \/ train_forward \/ train_backward
    \/ train_clip \/ train_step \/ train_zero \/ train_accum \/ train_return
    \/ valid_begin \/ valid_forward \/ valid_return \/ record
    \/ scheduler_step \/ compare \/ torch_save \/ loop_exit \/ json_dump

\* C6: train() always has a next step until it is done or a step has failed,
\* every step brings the end nearer, and when it is done it ran exactly
\* n_epochs epochs, each one training pass followed by one validation pass,
\* whatever early_stop and patience are.
C6_RunsAllEpochs ==
    /\ [](Running /\ pc # "done" => ENABLED Proceeds)
    /\ [](pc = "done" =>
            /\ epoch = config.n_epochs
            /\ passes = Alternating(config.n_epochs)
            /\ Len(records) = config.n_epochs
            /\ \A e \in 1..Len(records) : Get(records[e], "epoch") = e)
    /\ [][StepsLeft' < StepsLeft]_vars

\* a finished run with early stopping asked for, a patience of one epoch and
\* two epochs in a row without improvement
C6_Witness ==
    /\ pc = "done"
    /\ config.early_stop
    /\ config.patience = 1
    /\ config.n_epochs = MaxEpochs
    /\ epoch = MaxEpochs
    /\ scheduler.num_bad_epochs >= 2

\* C7: a failure ends the run where it happens: no step follows it, and after
\* a failure in epoch k the loop variable is still k, the records of the
\* epochs before k (and that of k, if it got that far) are in memory, the
\* record file was never written, and the checkpoint file is what the last
\* save of an earlier epoch wrote.
C7_FailureAborts ==
    /\ [](error # None => pc = "aborted")
    /\ [][pc # "aborted"]_vars
    /\ []((pc = "aborted" /\ error[1].epoch >= 1 /\ error[1].at # "dump") =>
            /\ epoch = error[1].epoch
            /\ Len(records) \in {epoch - 1, epoch}
            /\ \A e \in 1..Len(records) : Get(records[e], "epoch") = e
            /\ record_writes = 0
            /\ record_file = NoRecordFile
            /\ \A i \in 1..Len(ckpt_log) : ckpt_log[i].epoch < epoch
            /\ Len(ckpt_log) >= 1 => ckpt = ckpt_log[Len(ckpt_log)].file)

\* an optimizer step failed in epoch 2, after epoch 1 had saved a checkpoint
C7_Witness ==
    /\ pc = "aborted"
    /\ error[1].at = "train_step"
    /\ error[1].epoch = 2
    /\ Len(records) = 1
    /\ Len(ckpt_log) = 1
    /\ ckpt.epoch = 1

\* C8: when the Trainer itself has no model_name, construction ends in an
\* AttributeError wherever else the name may be defined: the optimizers and
\* the scheduler exist, record_path and record_keys do not, train() never
\* starts and neither file is written.
C8_ConstructionFails ==
    (config.model_name_on # "trainer" /\ pc \notin {"new", "measure_time", "returned"}) =>
        /\ pc = "aborted"
        /\ error = <<[at |-> "init", epoch |-> 0, kind |-> "AttributeError"]>>
        /\ {"optimizer", "bert_optimizer", "scheduler"} \subseteq attrs
        /\ "record_path" \notin attrs
        /\ "record_keys" \notin attrs
        /\ epoch = 0
        /\ passes = <<>>
        /\ records = <<>>
        /\ ckpt = NoCkpt
        /\ record_file = NoRecordFile

C8_Witness ==
    /\ pc = "aborted"
    /\ config.model_name_on = "config"
    /\ error[1].kind = "AttributeError"
    /\ "optimizer" \in attrs

\* C9: for 0 <= start <= end, measure_time returns "<m>m <s>s" with m the
\* whole minutes of end - start and s the seconds left over.
C9_MeasureTime ==
    (pc = "returned" /\ start_time <= now) =>
        LET e == now - start_time
            m == e \div 60
            s == e % 60
        IN  /\ result = <<Str(m) \o "m " \o Str(s) \o "s">>
            /\ 0 <= s /\ s <= 59 /\ 60 * m + s = e
            /\ (start_time = 0 /\ now = 125) => result = <<"2m 5s">>
            /\ (start_time = 0 /\ now = 59) => result = <<"0m 59s">>
            /\ (start_time = 0 /\ now = 3600) => result = <<"60m 0s">>
            /\ (start_time = 1 /\ now = 1) => result = <<"0m 0s">>

C9_Witness ==
    /\ pc = "returned"
    /\ start_time = 0
    /\ now = 3600
    /\ result = <<"60m 0s">>

BatchOps == <<"forward", "backward", "clip", "step", "zero_grad", "accumulate">>

\* C10: a training pass takes the batches once each in order and does, per
\* batch, forward, backward, clip, one optimizer step, zero_grad, accumulate;
\* it makes one optimizer step per batch whatever iters_to_accumulate is;
\* bert_optimizer and the scaler are never stepped; the validation pass takes
\* its batches once each in order, makes no step and changes no parameter.
C10_TrainingPass ==
    /\ [](steps.bert_optimizer = 0 /\ steps.scaler = 0)
    /\ [](pc \in {"train_forward", "valid_forward"} =>
            consumed = [i \in 1..idx |-> i])
    /\ []((pc = "train_forward" /\ idx >= 1) =>
            /\ ops = BatchOps
            /\ model.grads = "zero"
            /\ pass_steps = idx)
    /\ [](pc = "valid_begin" =>
            /\ idx = config.n_train
            /\ pass_steps = config.n_train
            /\ steps.optimizer = epoch * config.n_train
            /\ model.params = steps.optimizer)
    /\ [](pc = "record" =>
            /\ idx = config.n_valid
            /\ pass_steps = 0
            /\ model.mode = "eval")
    /\ [][(pc \in {"valid_begin", "valid_forward"}) =>
            (steps' = steps /\ model'.params = model.params)]_vars

C10_Witness ==
    /\ pc = "record"
    /\ epoch = 2
    /\ config.n_train = 2
    /\ config.n_valid = 2
    /\ config.iters_to_accumulate = 2
    /\ steps.optimizer = 4
    /\ model.params = 4

====
